---- MODULE Spec2Model ----
(***************************************************************************)
(* A model of stubhubScrape.py: the per-URL scraping task (process_url),   *)
(* the history file (save_price_to_csv), the all-time-low aggregate        *)
(* (get_all_time_lows), the snapshot merge (update_csv) and the run        *)
(* (main, with its thread pool).                                           *)
(*                                                                         *)
(* Text that the program parses or formats (prices, URLs) is a sequence of *)
(* one-character strings; text it only copies (titles, dates, locations)   *)
(* is an opaque string.  Money amounts are integers, in cents.             *)
(***************************************************************************)
EXTENDS Integers, Sequences, FiniteSets, TLC

VARIABLES
    history,        \* the history file: [exists, lines]
    snapshot,       \* the main CSV file: [exists, cols, rows]
    before,         \* the main CSV file as it was before the last merge
    all_time_lows,  \* the map the last get_all_time_lows call returned
    now,            \* the clock, in seconds
    applied,        \* function harnesses: how often the function was applied
    all_results,    \* main: the results collected from the pool
    csv_rows,       \* main: the rows read from the main CSV
    args,           \* main: the command line, [csv, workers]
    urls_list,      \* main: the URLs in the order of their submission
    mainPc,         \* main: where the main thread is
    collected,      \* main: the results the iterator has yielded so far
    task,           \* per URL: the state of its process_url call
    written,        \* every row whose append completed, in that order
    histAtStart,    \* the history file as it was when the run started
    attempts,       \* the number of process_url calls submitted so far
    sessions,       \* the number of browser sessions the run has opened
    ex              \* one extract_event_details call, stage by stage

-----------------------------------------------------------------------------
(* Characters and strings *)

Digits == <<"0", "1", "2", "3", "4", "5", "6", "7", "8", "9">>
UpperCase == <<"A", "B", "C", "D", "E", "F", "G", "H", "I", "J", "K", "L", "M",
               "N", "O", "P", "Q", "R", "S", "T", "U", "V", "W", "X", "Y", "Z">>
LowerCase == <<"a", "b", "c", "d", "e", "f", "g", "h", "i", "j", "k", "l", "m",
               "n", "o", "p", "q", "r", "s", "t", "u", "v", "w", "x", "y", "z">>

IsDigit(c) == \E i \in 1..10 : Digits[i] = c
DigitValue(c) == (CHOOSE i \in 1..10 : Digits[i] = c) - 1
DigitChar(d) == Digits[d + 1]

\* str.lower()
LowerChar(c) ==
    IF \E i \in 1..26 : UpperCase[i] = c
    THEN LowerCase[CHOOSE i \in 1..26 : UpperCase[i] = c]
    ELSE c
Lower(s) == [i \in 1..Len(s) |-> LowerChar(s[i])]

\* str.replace(c, '')
RECURSIVE Remove(_, _)
Remove(s, c) ==
    IF s = <<>> THEN <<>>
    ELSE IF Head(s) = c THEN Remove(Tail(s), c)
    ELSE <<Head(s)>> \o Remove(Tail(s), c)

\* str.strip()
RECURSIVE LStrip(_)
LStrip(s) == IF s # <<>> /\ Head(s) = " " THEN LStrip(Tail(s)) ELSE s
RECURSIVE RStrip(_)
RStrip(s) ==
    IF s # <<>> /\ s[Len(s)] = " " THEN RStrip(SubSeq(s, 1, Len(s) - 1)) ELSE s
Strip(s) == RStrip(LStrip(s))

\* The price values that are not amounts.
NA == <<"N", "/", "A">>
SoldOut == <<"S", "o", "l", "d", " ", "O", "u", "t">>
Error == <<"E", "r", "r", "o", "r">>
\* Python's None, where a text is expected.
None == <<"<None>">>

-----------------------------------------------------------------------------
(* Money: f"${x:,.2f}" and float(...) *)

RECURSIVE DigitsOf(_)
DigitsOf(n) ==
    IF n < 10 THEN <<DigitChar(n)>>
    ELSE DigitsOf(n \div 10) \o <<DigitChar(n % 10)>>

RECURSIVE Grouped(_)
Grouped(ds) ==
    IF Len(ds) <= 3 THEN ds
    ELSE Grouped(SubSeq(ds, 1, Len(ds) - 3)) \o <<",">>
         \o SubSeq(ds, Len(ds) - 2, Len(ds))

\* f"${x:,.2f}" of an amount of `cents` cents.
FormatMoney(cents) ==
    <<"$">> \o Grouped(DigitsOf(cents \div 100)) \o <<".">>
    \o <<DigitChar((cents % 100) \div 10), DigitChar(cents % 10)>>

RECURSIVE NatOf(_)
NatOf(ds) ==
    IF ds = <<>> THEN 0
    ELSE 10 * NatOf(SubSeq(ds, 1, Len(ds) - 1)) + DigitValue(ds[Len(ds)])

AllDigits(s) == \A i \in 1..Len(s) : IsDigit(s[i])

\* float(s) for the texts of the model: digits with at most one point and at
\* most two decimals.  ok = FALSE is the ValueError; cents is the value.
ParseFloat(s) ==
    LET dots == {i \in 1..Len(s) : s[i] = "."}
        dot == IF dots = {} THEN Len(s) + 1 ELSE CHOOSE i \in dots : TRUE
        whole == SubSeq(s, 1, dot - 1)
        frac == SubSeq(s, dot + 1, Len(s))
        ok == /\ Cardinality(dots) <= 1
              /\ AllDigits(whole) /\ AllDigits(frac)
              /\ Len(whole) + Len(frac) >= 1
              /\ Len(frac) <= 2
    IN  [ok |-> ok,
         cents |-> IF ~ok THEN 0
                   ELSE 100 * NatOf(whole)
                        + (IF Len(frac) = 0 THEN 0
                           ELSE IF Len(frac) = 1 THEN 10 * NatOf(frac)
                           ELSE NatOf(frac))]

-----------------------------------------------------------------------------
(* The history file *)

HeaderLine ==
    [kind |-> "header", Time |-> 0, Title |-> "", Date |-> "", Location |-> "",
     Price |-> <<>>, URL |-> <<>>]

HistoryRow(time, title, date, location, price, url) ==
    [kind |-> "row", Time |-> time, Title |-> title, Date |-> date,
     Location |-> location, Price |-> price, URL |-> url]

NoHistory == [exists |-> FALSE, lines |-> <<>>]

-----------------------------------------------------------------------------
(* get_all_time_lows *)

\* LowsStep without the comparison: the price of the last row of a URL.
LowsStepLatest(lows, row) ==
    LET url == Strip(row.URL)
        price_str == row.Price
        parsed == ParseFloat(Strip(Remove(Remove(price_str, "$"), ",")))
    IN  IF row.kind # "row" THEN lows
        ELSE IF url = <<>> \/ price_str = <<>>
                \/ Lower(price_str) \in {Lower(NA), Lower(SoldOut), Lower(Error)}
        THEN lows
        ELSE IF ~parsed.ok THEN lows
        ELSE (url :> parsed.cents) @@ lows

\* LowsStep with the comparison turned round.
LowsStepMax(lows, row) ==
    LET url == Strip(row.URL)
        price_str == row.Price
        parsed == ParseFloat(Strip(Remove(Remove(price_str, "$"), ",")))
    IN  IF row.kind # "row" THEN lows
        ELSE IF url = <<>> \/ price_str = <<>>
                \/ Lower(price_str) \in {Lower(NA), Lower(SoldOut), Lower(Error)}
        THEN lows
        ELSE IF ~parsed.ok THEN lows
        ELSE IF url \notin DOMAIN lows \/ parsed.cents > lows[url]
        THEN (url :> parsed.cents) @@ lows
        ELSE lows

\* One row of the reader's loop: the map after the row.
LowsStep(lows, row) ==
    LET url == Strip(row.URL)
        price_str == row.Price
        parsed == ParseFloat(Strip(Remove(Remove(price_str, "$"), ",")))
    IN  IF row.kind # "row" THEN lows
        ELSE IF url = <<>> \/ price_str = <<>>
                \/ Lower(price_str) \in {Lower(NA), Lower(SoldOut), Lower(Error)}
        THEN lows
        ELSE IF ~parsed.ok THEN lows
        ELSE IF url \notin DOMAIN lows \/ parsed.cents < lows[url]
        THEN (url :> parsed.cents) @@ lows
        ELSE lows

RECURSIVE LowsOver(_, _)
LowsOver(lows, rows) ==
    IF rows = <<>> THEN lows
    ELSE LowsOver(LowsStep(lows, Head(rows)), Tail(rows))

EmptyMap == [u \in {} |-> 0]

\* The first line is read as the field names; rows are read by name, so
\* nothing is read from a file whose first line is not the header.
get_all_time_lows(file) ==
    IF ~file.exists \/ file.lines = <<>> THEN EmptyMap
    ELSE IF Head(file.lines).kind # "header" THEN EmptyMap
    ELSE LowsOver(EmptyMap, Tail(file.lines))

-----------------------------------------------------------------------------
(* The main CSV file (the snapshot) *)

\* A row is a function from the column names of its file to the cells.
fieldnames_std ==
    <<"Time", "Event Title", "Date", "Location", "Price",
      "All Time Low Price", "URL">>
StdCols == {fieldnames_std[i] : i \in 1..Len(fieldnames_std)}

\* dict.get(key, default)
Get(row, key, default) == IF key \in DOMAIN row THEN row[key] ELSE default

\* row[key] = value
Put(row, key, value) == (key :> value) @@ row

\* DictWriter's restval='' in a cell of column c: the empty text (for the
\* Time column, whose readings are numbers here, the number -1).
EmptyCell(c) ==
    IF c = "Time" THEN -1
    ELSE IF c \in {"Price", "All Time Low Price", "URL"} THEN <<>>
    ELSE ""

NoSnapshot == [exists |-> FALSE, cols |-> {}, rows |-> <<>>]

\* main's read of the main CSV: the rows, when the file exists and its
\* header has a URL column.
read_main_csv(file) ==
    IF file.exists /\ "URL" \in file.cols THEN file.rows ELSE <<>>

-----------------------------------------------------------------------------
(* update_csv *)

\* The first result of the batch for `url`, 0 when there is none.
FirstMatch(scraped_data, url) ==
    LET hits == {i \in 1..Len(scraped_data) :
                    Strip(scraped_data[i]["URL"]) = url}
    IN  IF hits = {} THEN 0 ELSE CHOOSE i \in hits : \A j \in hits : i <= j

\* UpdateRow with the low written only into rows that have none yet.
UpdateRowKeepLow(row, scraped_data, lows, time) ==
    LET url == Strip(Get(row, "URL", <<>>))
        m == FirstMatch(scraped_data, url)
        data == scraped_data[m]
        fresh ==
            IF m = 0 THEN row
            ELSE LET r1 == Put(row, "Time", time)
                     r2 == Put(r1, "Event Title", data["Event Title"])
                     r3 == Put(r2, "Date", data["Date"])
                     r4 == Put(r3, "Location", data["Location"])
                 IN  IF data["Price"] # None
                     THEN Put(r4, "Price", data["Price"])
                     ELSE IF "Price" \notin DOMAIN r4
                     THEN Put(r4, "Price", NA)
                     ELSE r4
    IN  IF url = <<>> THEN row
        ELSE IF "All Time Low Price" \in DOMAIN fresh THEN fresh
        ELSE IF url \in DOMAIN lows
        THEN Put(fresh, "All Time Low Price", FormatMoney(lows[url]))
        ELSE Put(fresh, "All Time Low Price", NA)

\* UpdateRow with the Time written into every row that has a URL.
UpdateRowStamp(row, scraped_data, lows, time) ==
    LET url == Strip(Get(row, "URL", <<>>))
        m == FirstMatch(scraped_data, url)
        data == scraped_data[m]
        stamped == Put(row, "Time", time)
        fresh ==
            IF m = 0 THEN stamped
            ELSE LET r2 == Put(stamped, "Event Title", data["Event Title"])
                     r3 == Put(r2, "Date", data["Date"])
                     r4 == Put(r3, "Location", data["Location"])
                 IN  IF data["Price"] # None
                     THEN Put(r4, "Price", data["Price"])
                     ELSE IF "Price" \notin DOMAIN r4
                     THEN Put(r4, "Price", NA)
                     ELSE r4
    IN  IF url = <<>> THEN row
        ELSE IF url \in DOMAIN lows
        THEN Put(fresh, "All Time Low Price", FormatMoney(lows[url]))
        ELSE IF "All Time Low Price" \notin DOMAIN fresh
        THEN Put(fresh, "All Time Low Price", NA)
        ELSE fresh

\* UpdateRow with a detail written only when the batch has a value for it.
UpdateRowValidOnly(row, scraped_data, lows, time) ==
    LET url == Strip(Get(row, "URL", <<>>))
        m == FirstMatch(scraped_data, url)
        data == scraped_data[m]
        PutValid(r, key) ==
            IF data[key] \in {"N/A", "Error"} /\ key \in DOMAIN r
            THEN r
            ELSE Put(r, key, data[key])
        fresh ==
            IF m = 0 THEN row
            ELSE LET r1 == Put(row, "Time", time)
                     r2 == PutValid(r1, "Event Title")
                     r3 == PutValid(r2, "Date")
                     r4 == PutValid(r3, "Location")
                 IN  IF data["Price"] # None
                     THEN Put(r4, "Price", data["Price"])
                     ELSE IF "Price" \notin DOMAIN r4
                     THEN Put(r4, "Price", NA)
                     ELSE r4
    IN  IF url = <<>> THEN row
        ELSE IF url \in DOMAIN lows
        THEN Put(fresh, "All Time Low Price", FormatMoney(lows[url]))
        ELSE IF "All Time Low Price" \notin DOMAIN fresh
        THEN Put(fresh, "All Time Low Price", NA)
        ELSE fresh

\* The body of the loop over the existing rows.
UpdateRow(row, scraped_data, lows, time) ==
    LET url == Strip(Get(row, "URL", <<>>))
        m == FirstMatch(scraped_data, url)
        data == scraped_data[m]
        fresh ==
            IF m = 0 THEN row
            ELSE LET r1 == Put(row, "Time", time)
                     r2 == Put(r1, "Event Title", data["Event Title"])
                     r3 == Put(r2, "Date", data["Date"])
                     r4 == Put(r3, "Location", data["Location"])
                 IN  IF data["Price"] # None
                     THEN Put(r4, "Price", data["Price"])
                     ELSE IF "Price" \notin DOMAIN r4
                     THEN Put(r4, "Price", NA)
                     ELSE r4
    IN  IF url = <<>> THEN row
        ELSE IF url \in DOMAIN lows
        THEN Put(fresh, "All Time Low Price", FormatMoney(lows[url]))
        ELSE IF "All Time Low Price" \notin DOMAIN fresh
        THEN Put(fresh, "All Time Low Price", NA)
        ELSE fresh

\* The row made for a URL of the batch that no existing row has.
NewRow(url, scraped_data, lows, time) ==
    LET data == scraped_data[FirstMatch(scraped_data, url)]
    IN  [c \in StdCols |->
            CASE c = "Time" -> time
              [] c = "Event Title" -> data["Event Title"]
              [] c = "Date" -> data["Date"]
              [] c = "Location" -> data["Location"]
              [] c = "Price" ->
                    IF data["Price"] # None THEN data["Price"] ELSE NA
              [] c = "All Time Low Price" ->
                    IF url \in DOMAIN lows THEN FormatMoney(lows[url]) ELSE NA
              [] c = "URL" -> url]

\* NewUrls without the subtraction of the URLs the main CSV has.
NewUrlsAll(existing, scraped_data) ==
    {Strip(scraped_data[i]["URL"]) :
        i \in {j \in 1..Len(scraped_data) : scraped_data[j]["URL"] # <<>>}}

\* The URLs of the batch that no existing row has.
NewUrls(existing, scraped_data) ==
    LET urls_in_main_csv ==
            {Strip(existing[i]["URL"]) :
                i \in {j \in 1..Len(existing) :
                          Get(existing[j], "URL", <<>>) # <<>>}}
        scraped_urls ==
            {Strip(scraped_data[i]["URL"]) :
                i \in {j \in 1..Len(scraped_data) :
                          scraped_data[j]["URL"] # <<>>}}
    IN  scraped_urls \ urls_in_main_csv

\* FinalFieldnames with the standard columns alone.
FinalFieldnamesStd(updated_rows) == StdCols

\* The columns of the written file: the standard ones and every key of
\* every row.
FinalFieldnames(updated_rows) ==
    StdCols \cup UNION {DOMAIN updated_rows[i] : i \in 1..Len(updated_rows)}

\* update_csv with the rows without URL skipped and not kept.
update_csv_drop(file, scraped_data, existing, history_file, new_order, time) ==
    LET rows == IF file.exists
                THEN SelectSeq(existing,
                               LAMBDA r : Strip(Get(r, "URL", <<>>)) # <<>>)
                ELSE <<>>
        lows == get_all_time_lows(history_file)
        updated_rows ==
            [i \in 1..Len(rows) |-> UpdateRow(rows[i], scraped_data, lows, time)]
            \o [i \in 1..Len(new_order) |->
                    NewRow(new_order[i], scraped_data, lows, time)]
        final_fieldnames == FinalFieldnames(updated_rows)
    IN  [exists |-> TRUE,
         cols |-> final_fieldnames,
         rows |-> [i \in 1..Len(updated_rows) |->
                      [c \in final_fieldnames |->
                          Get(updated_rows[i], c, EmptyCell(c))]]]

\* The file update_csv writes.  new_order lists NewUrls in the order in
\* which the loop over the set new_urls visits them; time is the clock.
update_csv(file, scraped_data, existing, history_file, new_order, time) ==
    LET rows == IF file.exists THEN existing ELSE <<>>
        lows == get_all_time_lows(history_file)
        updated_rows ==
            [i \in 1..Len(rows) |-> UpdateRow(rows[i], scraped_data, lows, time)]
            \o [i \in 1..Len(new_order) |->
                    NewRow(new_order[i], scraped_data, lows, time)]
        final_fieldnames == FinalFieldnames(updated_rows)
    IN  [exists |-> TRUE,
         cols |-> final_fieldnames,
         rows |-> [i \in 1..Len(updated_rows) |->
                      [c \in final_fieldnames |->
                          Get(updated_rows[i], c, EmptyCell(c))]]]

\* The orders in which a loop can visit the set S.
Orders(S) ==
    {s \in [1..Cardinality(S) -> S] : \A i, j \in DOMAIN s : s[i] = s[j] => i = j}

-----------------------------------------------------------------------------
(* Values the inputs are drawn from *)

MaxHist == 3
MaxRows == 2
MaxClock == 1

u1 == <<"u", "1">>
u2 == <<"u", "2">>
URLs == {u1, u2}

\* Amounts, in cents: $50.00, $45.50 and $1,234.56.
Amounts == {5000, 4550, 123456}

Garbage == <<"a", "b", "c">>
\* What a Price cell of the history holds: an amount as process_url writes
\* it, the three non-amounts, one of those in lower case, nothing, and text
\* that is no number.
HistoryPrices ==
    {FormatMoney(c) : c \in Amounts}
    \cup {NA, SoldOut, Error, Lower(SoldOut), <<>>, Garbage}

\* The records of a history: every price for u1; an amount and Sold Out
\* for u2.
HistoryRows ==
    {HistoryRow(0, "T", "D", "L", p, u1) : p \in HistoryPrices}
    \cup {HistoryRow(0, "T", "D", "L", p, u2) :
            p \in {FormatMoney(5000), SoldOut}}

SeqsUpTo(S, n) == UNION {[1..k -> S] : k \in 0..n}

\* The dictionary process_url returns.
ScrapedData(url, title, date, location, price) ==
    [k \in {"URL", "Event Title", "Date", "Location", "Price"} |->
        CASE k = "URL" -> url
          [] k = "Event Title" -> title
          [] k = "Date" -> date
          [] k = "Location" -> location
          [] k = "Price" -> price]

-----------------------------------------------------------------------------
(* The price pattern and the sold-out test of extract_event_details *)

IsSpace(c) == c \in {" ", "\n", "\t"}

\* s has n digits from position i on.
DigitsAt(s, i, n) ==
    \A k \in 0..(n - 1) : i + k <= Len(s) /\ IsDigit(s[i + k])

\* (?:,\d{3})* from position k on: the position after the last group.
RECURSIVE GroupsEnd(_, _)
GroupsEnd(s, k) ==
    IF k <= Len(s) /\ s[k] = "," /\ DigitsAt(s, k + 1, 3)
    THEN GroupsEnd(s, k + 4)
    ELSE k

\* (?:\.\d{2})? from position k on: the position after it.
CentsEnd(s, k) ==
    IF k <= Len(s) /\ s[k] = "." /\ DigitsAt(s, k + 1, 2) THEN k + 3 ELSE k

\* The pattern \$\s?(\d{1,3}(?:,\d{3})*(?:\.\d{2})?) tried at position i:
\* whether it matches there, and group 1.  Every part after \d{1,3} may
\* match nothing, so the greedy choices are the match.
MatchAt(s, i) ==
    LET j  == IF i + 1 <= Len(s) /\ IsSpace(s[i + 1]) THEN i + 2 ELSE i + 1
        n1 == IF DigitsAt(s, j, 3) THEN 3
              ELSE IF DigitsAt(s, j, 2) THEN 2
              ELSE IF DigitsAt(s, j, 1) THEN 1
              ELSE 0
        e  == CentsEnd(s, GroupsEnd(s, j + n1))
    IN  IF s[i] = "$" /\ n1 > 0
        THEN [ok |-> TRUE, group |-> SubSeq(s, j, e - 1)]
        ELSE [ok |-> FALSE, group |-> <<>>]

\* price_pattern.search(element_text): the leftmost match.
RECURSIVE SearchFrom(_, _)
SearchFrom(s, i) ==
    IF i > Len(s) THEN [ok |-> FALSE, group |-> <<>>]
    ELSE IF MatchAt(s, i).ok THEN MatchAt(s, i)
    ELSE SearchFrom(s, i + 1)

price_pattern_search(s) == SearchFrom(s, 1)

\* Lines 221 to 222: group 1 without its commas, as a float, formatted.
PriceOfMatch(m) == FormatMoney(ParseFloat(Remove(m.group, ",")).cents)

\* sub in s.
Contains(s, sub) ==
    \E i \in 1..(Len(s) - Len(sub) + 1) : SubSeq(s, i, i + Len(sub) - 1) = sub

SoldOutNeedle == <<"s", "o", "l", "d", " ", "o", "u", "t">>

-----------------------------------------------------------------------------
(* extract_event_details, stage by stage *)

\* What a page does to the stages of one extraction: the outcome of the
\* navigation and of each wait ("ok", "timeout", or "fault" for any other
\* exception), whether the price wait polls the container or breaks
\* ("poll", "fault"), the text of the price container, and what the fallback
\* read of the container does ("read", "missing", "fault").
Page(nav, ready, key, title, date, location, modal, price, text, fallback) ==
    [nav |-> nav, ready |-> ready, key |-> key, title |-> title,
     date |-> date, location |-> location, modal |-> modal, price |-> price,
     text |-> text, fallback |-> fallback]

NoPage ==
    Page("none", "none", "none", "none", "none", "none", "none", "none",
         <<>>, "none")

Details(title, date, location, price) ==
    [title |-> title, date |-> date, location |-> location, price |-> price]

\* The call at line 109: the four results at their defaults, nothing run.
StartExtraction(page) ==
    [pc |-> "nav", page |-> page, ran |-> {}, title |-> "N/A",
     date |-> "N/A", location |-> "N/A", price |-> None]

NoExtraction == [StartExtraction(NoPage) EXCEPT !.pc = "idle"]

\* The returns of lines 148, 152, 250 and 254.
ReturnNothing(e) ==
    [e EXCEPT !.pc = "return", !.title = "N/A", !.date = "N/A",
              !.location = "N/A", !.price = None]

\* Line 123, and the handlers of lines 247 to 254.
NavStage(e) ==
    IF e.page.nav = "ok" THEN [e EXCEPT !.pc = "ready"] ELSE ReturnNothing(e)

\* The ready-state stage as it would be if it caught every exception.
ReadyStageGoesOn(e) == [e EXCEPT !.pc = "key"]

\* Stage 1, lines 125 to 133: a timeout goes on, any other exception leaves
\* the outer try block.
ReadyStage(e) ==
    IF e.page.ready \in {"ok", "timeout"}
    THEN [e EXCEPT !.pc = "key"]
    ELSE ReturnNothing(e)

\* The key stage as it would be if its handlers only logged.
KeyStageGoesOn(e) == [e EXCEPT !.pc = "title"]

\* Stage 2, lines 135 to 152.
KeyStage(e) ==
    IF e.page.key = "ok" THEN [e EXCEPT !.pc = "title"] ELSE ReturnNothing(e)

\* The title stage as it would be if it caught TimeoutException only.
TitleStageTimeoutOnly(e) ==
    IF e.page.title = "ok" THEN [e EXCEPT !.pc = "date", !.title = "T"]
    ELSE IF e.page.title = "timeout" THEN [e EXCEPT !.pc = "date"]
    ELSE ReturnNothing(e)

\* Lines 157 to 168.
TitleStage(e) ==
    IF e.page.title = "ok"
    THEN [e EXCEPT !.pc = "date", !.title = "T"]
    ELSE [e EXCEPT !.pc = "date"]

\* Lines 170 to 181.
DateStage(e) ==
    IF e.page.date = "ok"
    THEN [e EXCEPT !.pc = "location", !.date = "D"]
    ELSE [e EXCEPT !.pc = "location"]

\* Lines 183 to 194.
LocationStage(e) ==
    IF e.page.location = "ok"
    THEN [e EXCEPT !.pc = "modal", !.location = "L"]
    ELSE [e EXCEPT !.pc = "modal"]

\* Lines 196 to 209: whatever the wait and the click do, the price is next.
ModalStage(e) == [e EXCEPT !.pc = "price"]

\* Lines 211 to 226 and 242 to 243: the wait for the pattern in the text of
\* the price container.
PriceStage(e) ==
    LET m == price_pattern_search(e.page.text)
    IN  IF e.page.price = "fault"
        THEN [e EXCEPT !.pc = "return", !.price = None]
        ELSE IF m.ok
        THEN [e EXCEPT !.pc = "return", !.price = PriceOfMatch(m)]
        ELSE [e EXCEPT !.pc = "fallback", !.price = None]

\* The fallback as it would be without lower().
FallbackStageCaseSensitive(e) ==
    IF e.page.fallback = "read"
       /\ Contains(Strip(e.page.text), SoldOutNeedle)
    THEN [e EXCEPT !.pc = "return", !.price = SoldOut]
    ELSE [e EXCEPT !.pc = "return"]

\* Lines 227 to 240: the read of the container after the timeout.
FallbackStage(e) ==
    IF e.page.fallback = "read"
       /\ Contains(Lower(Strip(e.page.text)), SoldOutNeedle)
    THEN [e EXCEPT !.pc = "return", !.price = SoldOut]
    ELSE [e EXCEPT !.pc = "return"]

\* One stage of the call, noted as run.
StageStep(e) ==
    LET r == [e EXCEPT !.ran = @ \cup {e.pc}]
    IN  CASE e.pc = "nav" -> NavStage(r)
          [] e.pc = "ready" -> ReadyStage(r)
          [] e.pc = "key" -> KeyStage(r)
          [] e.pc = "title" -> TitleStage(r)
          [] e.pc = "date" -> DateStage(r)
          [] e.pc = "location" -> LocationStage(r)
          [] e.pc = "modal" -> ModalStage(r)
          [] e.pc = "price" -> PriceStage(r)
          [] e.pc = "fallback" -> FallbackStage(r)

RECURSIVE RunStages(_)
RunStages(e) == IF e.pc = "return" THEN e ELSE RunStages(StageStep(e))

\* The tuple extract_event_details returns.
extract_event_details(page) ==
    LET e == RunStages(StartExtraction(page))
    IN  Details(e.title, e.date, e.location, e.price)

\* Texts of the price container that hold no amount.
SoonText == <<"s", "o", "o", "n">>
UpperSoldOut == <<"S", "O", "L", "D", " ", "O", "U", "T">>

\* The pages of a run: a price with every detail, at either of two amounts;
\* a page sold out, in capitals, whose title never shows; a page whose
\* price never shows;
\* a page whose listings never show; a navigation that fails; a page with
\* a price whose ready-state script fails; a page whose listings wait fails.
Pages ==
    {Page("ok", "ok", "ok", "ok", "ok", "ok", "timeout", "poll",
          FormatMoney(a), "read") : a \in {5000, 4550}}
    \cup
    {Page("ok", "ok", "ok", "timeout", "ok", "ok", "ok", "poll",
          UpperSoldOut, "read"),
     Page("ok", "timeout", "ok", "ok", "ok", "ok", "fault", "poll", SoonText,
          "read"),
     Page("ok", "ok", "timeout", "ok", "ok", "ok", "ok", "poll", <<>>,
          "read"),
     Page("fault", "ok", "ok", "ok", "ok", "ok", "ok", "poll", <<>>,
          "read"),
     Page("ok", "fault", "ok", "ok", "ok", "ok", "ok", "poll",
          FormatMoney(4550), "read"),
     Page("ok", "ok", "fault", "ok", "ok", "ok", "ok", "poll", <<>>,
          "read")}

vars ==
    <<history, snapshot, before, all_time_lows, now, applied, all_results,
      csv_rows, args, urls_list, mainPc, collected, task, written,
      histAtStart, attempts, sessions, ex>>

\* process_url's scraped_data as it is on entry.
DefaultData(url) == ScrapedData(url, "Error", "Error", "Error", Error)

\* A URL that has no process_url call.  call and waited are the extraction
\* of the call when it is followed stage by stage, and the polls its
\* current wait has made.
IdleTask(url) ==
    [pc |-> "none", where |-> "try", driver |-> 0, page |-> NoPage,
     data |-> DefaultData(url), ret |-> "none", call |-> NoExtraction,
     waited |-> 0]

\* The variables of a run, for the actions that leave them alone.
runVars ==
    <<args, urls_list, mainPc, collected, task, written, histAtStart,
      attempts, sessions>>

\* The state of the run's variables in the function harnesses.
NoRun ==
    /\ args = [csv |-> FALSE, workers |-> 1]
    /\ urls_list = <<>>
    /\ mainPc = "idle"
    /\ collected = <<>>
    /\ task = [u \in URLs |-> IdleTask(u)]
    /\ written = <<>>
    /\ histAtStart = NoHistory
    /\ attempts = 0
    /\ sessions = 0

-----------------------------------------------------------------------------
(* Harness of get_all_time_lows: Init draws a history, the action applies   *)
(* the function.                                                           *)

InitLows ==
    /\ history \in {[exists |-> TRUE, lines |-> <<HeaderLine>> \o rows] :
                        rows \in SeqsUpTo(HistoryRows, MaxHist)}
    /\ snapshot = NoSnapshot
    /\ before = NoSnapshot
    /\ all_time_lows = EmptyMap
    /\ now = 0
    /\ applied = 0
    /\ all_results = <<>>
    /\ csv_rows = <<>>
    /\ ex = NoExtraction
    /\ NoRun

ComputeLows ==
    /\ applied = 0
    /\ all_time_lows' = get_all_time_lows(history)
    /\ applied' = 1
    /\ UNCHANGED <<history, snapshot, before, now, all_results, csv_rows,
                   runVars, ex>>

NextLows == ComputeLows

SpecLows == InitLows /\ [][NextLows]_vars

-----------------------------------------------------------------------------
(* Harness of update_csv: Init draws a main CSV, a batch and a history; the *)
(* actions apply update_csv once, and once more to the file the first      *)
(* application wrote.                                                      *)

MergeHeaders == {StdCols, StdCols \cup {"Notes"}, {"URL", "Notes"}}

SnapshotRow(cols, url, price, low) ==
    [c \in cols |->
        CASE c = "Time" -> 0
          [] c = "Event Title" -> "Old"
          [] c = "Date" -> "OldD"
          [] c = "Location" -> "OldL"
          [] c = "Price" -> price
          [] c = "All Time Low Price" -> low
          [] c = "URL" -> url
          [] OTHER -> "note"]

\* The rows of a main CSV: a known price with a known low, for a URL that
\* is plain, padded with a blank, or missing; and for u1 a failed price
\* with no low.
SnapshotRows(cols) ==
    {SnapshotRow(cols, u, FormatMoney(5000), FormatMoney(4550)) :
        u \in URLs \cup {<<" ">> \o u1, <<>>}}
    \cup {SnapshotRow(cols, u1, Error, NA)}

MergeSnapshots ==
    {NoSnapshot} \cup
    UNION {
        {[exists |-> TRUE, cols |-> cols, rows |-> rows] :
            rows \in SeqsUpTo(SnapshotRows(cols), MaxRows)} :
        cols \in MergeHeaders}

\* What process_url returns for a URL: a price with all details, Sold Out
\* with one detail missing, and a failed extraction.
ResultsFor(u) ==
    {ScrapedData(u, "New", "NewD", "NewL", FormatMoney(4550)),
     ScrapedData(u, "New", "N/A", "NewL", SoldOut),
     ScrapedData(u, "N/A", "N/A", "N/A", Error)}

\* The batches: u1 alone, u2 alone with a price, or both, u1 first or last.
MergeBatches ==
    {<<r>> : r \in ResultsFor(u1)}
    \cup {<<ScrapedData(u2, "New", "NewD", "NewL", FormatMoney(4550))>>}
    \cup {<<r1, r2>> : r1 \in ResultsFor(u1), r2 \in ResultsFor(u2)}
    \cup {<<ScrapedData(u2, "New", "NewD", "NewL", FormatMoney(4550)), r1>> :
            r1 \in ResultsFor(u1)}

MergeHistories ==
    {NoHistory,
     [exists |-> TRUE,
      lines |-> <<HeaderLine,
                  HistoryRow(0, "T", "D", "L", FormatMoney(123456), u1)>>],
     [exists |-> TRUE,
      lines |-> <<HeaderLine,
                  HistoryRow(0, "T", "D", "L", FormatMoney(4550), u1),
                  HistoryRow(0, "T", "D", "L", Error, u2)>>]}

InitMerge ==
    /\ snapshot \in MergeSnapshots
    /\ csv_rows = read_main_csv(snapshot)
    /\ all_results \in MergeBatches
    /\ history \in MergeHistories
    /\ before = snapshot
    /\ all_time_lows = EmptyMap
    /\ now = 0
    /\ applied = 0
    /\ ex = NoExtraction
    /\ NoRun

\* The clock advances.  Its step is long against a run: the readings of one
\* run are equal, and no reading is needed after the second application.
Tick ==
    /\ mainPc \in {"idle", "done"}
    /\ applied < 2
    /\ now < MaxClock
    /\ now' = now + 1
    /\ UNCHANGED <<history, snapshot, before, all_time_lows, applied,
                   all_results, csv_rows, runVars, ex>>

MergeOnce ==
    /\ applied = 0
    /\ \E new_order \in Orders(NewUrls(csv_rows, all_results)) :
          snapshot' = update_csv(snapshot, all_results, csv_rows, history,
                                 new_order, now)
    /\ before' = snapshot
    /\ all_time_lows' = get_all_time_lows(history)
    /\ applied' = 1
    /\ UNCHANGED <<history, now, all_results, csv_rows, runVars, ex>>

MergeAgain ==
    /\ applied = 1
    /\ csv_rows' = read_main_csv(snapshot)
    /\ \E new_order \in Orders(NewUrls(csv_rows', all_results)) :
          snapshot' = update_csv(snapshot, all_results, csv_rows', history,
                                 new_order, now)
    /\ before' = snapshot
    /\ all_time_lows' = get_all_time_lows(history)
    /\ applied' = 2
    /\ UNCHANGED <<history, now, all_results, runVars, ex>>

NextMerge == Tick \/ MergeOnce \/ MergeAgain

SpecMerge == InitMerge /\ [][NextMerge]_vars

-----------------------------------------------------------------------------
(* Harness of extract_event_details: Init draws a page, the action runs the *)
(* call one stage at a time.                                               *)

\* The ways a page writes an amount: with commas and cents as the program
\* writes it, the same without the commas, and both without the cents.
Styles == {"grouped", "plain", "groupedWhole", "plainWhole"}

\* The amount a page shows in a style; whole amounts are shown for amounts
\* without cents only.
Shown(a, style) ==
    LET g == Tail(FormatMoney(a))
        w == SubSeq(g, 1, Len(g) - 3)
    IN  CASE style = "grouped" -> g
          [] style = "plain" -> Remove(g, ",")
          [] style = "groupedWhole" -> IF a % 100 = 0 THEN w ELSE g
          [] style = "plainWhole" ->
                IF a % 100 = 0 THEN Remove(w, ",") ELSE Remove(g, ",")

ShownAmounts == {99, 4550, 5000, 123456, 200000}

Before == {<<>>, <<"f", "r", "o", "m", " ">>}
Gaps == {<<>>, <<" ">>}
After == {<<>>, <<" ", "e", "a", "c", "h">>, <<" ", "$", "9">>}

\* The text of a price container that shows the amount a.
AmountText(pre, gap, a, style, post) ==
    pre \o <<"$">> \o gap \o Shown(a, style) \o post

AmountTexts ==
    {AmountText(pre, gap, a, style, post) :
        pre \in Before, gap \in Gaps, a \in ShownAmounts, style \in Styles,
        post \in After}

\* Texts without an amount: sold out in three letter cases and with blanks
\* around it, other words, a dollar sign alone, nothing.
OtherTexts ==
    {SoldOut, UpperSoldOut, SoldOutNeedle, <<" ">> \o SoldOut \o <<"\n">>,
     SoonText, <<"$">>, <<>>}

Outcomes == {"ok", "timeout", "fault"}

\* The pages of the harness: every text on a page whose waits succeed, and
\* every combination of stage outcomes with a price, a sold-out text and
\* another text.
ExtractPages ==
    {Page("ok", "ok", "ok", "ok", "ok", "ok", "ok", "poll", t, "read") :
        t \in AmountTexts \cup OtherTexts}
    \cup
    {Page("ok", r, "ok", ti, d, l, m, "poll", t, f) :
        r \in {"ok", "timeout"}, ti \in Outcomes, d \in Outcomes,
        l \in Outcomes, m \in Outcomes,
        t \in {FormatMoney(5000), UpperSoldOut, SoonText},
        f \in {"read", "missing", "fault"}}
    \cup
    {Page("ok", r, "ok", ti, d, l, m, "fault", <<>>, "read") :
        r \in {"ok", "timeout"}, ti \in Outcomes, d \in Outcomes,
        l \in Outcomes, m \in Outcomes}
    \cup
    {Page("ok", r, k, "ok", "ok", "ok", "ok", "poll", FormatMoney(5000),
          "read") :
        r \in {"ok", "timeout"}, k \in {"timeout", "fault"}}
    \cup
    {Page("ok", "fault", "ok", "ok", "ok", "ok", "ok", "poll",
          FormatMoney(5000), "read"),
     Page("fault", "ok", "ok", "ok", "ok", "ok", "ok", "poll",
          FormatMoney(5000), "read")}

InitExtract ==
    /\ ex \in {StartExtraction(page) : page \in ExtractPages}
    /\ history = NoHistory
    /\ snapshot = NoSnapshot
    /\ before = NoSnapshot
    /\ all_time_lows = EmptyMap
    /\ now = 0
    /\ applied = 0
    /\ all_results = <<>>
    /\ csv_rows = <<>>
    /\ NoRun

\* The call executes its next stage.
RunStage ==
    /\ ex.pc \notin {"idle", "return"}
    /\ ex' = StageStep(ex)
    /\ UNCHANGED <<history, snapshot, before, all_time_lows, now, applied,
                   all_results, csv_rows, runVars>>

NextExtract == RunStage

SpecExtract == InitExtract /\ [][NextExtract]_vars

-----------------------------------------------------------------------------
(* save_price_to_csv, on a file of lines *)

\* What is left of a row whose first bytes the header has overwritten.
Fragment(row) == [row EXCEPT !.kind = "frag"]

\* The header written at offset 0 by the handle opened with 'w'.  A row is
\* longer than the header's 41 bytes (its time, commas and line end are 26,
\* its price 5 or more, and a URL is longer than 10), so a header written
\* over a row leaves the row's tail as a line of its own.
WriteHeaderAtStart(lines) ==
    IF lines = <<>> THEN <<HeaderLine>>
    ELSE IF Head(lines).kind = "header" THEN lines
    ELSE <<HeaderLine, Fragment(Head(lines))>> \o Tail(lines)

\* The row a save writes: at line 452 the fields of scraped_data, at line
\* 470 four times "Error".
SavedRow(u) ==
    LET d == task[u].data
    IN  IF task[u].where = "try"
        THEN HistoryRow(now, d["Event Title"], d["Date"], d["Location"],
                        d["Price"], u)
        ELSE HistoryRow(now, "Error", "Error", "Error", Error, u)

-----------------------------------------------------------------------------
(* process_url and main *)

MaxWorkers == 2
MaxAttempts == 2

Running == {u \in URLs : task[u].pc \notin {"none", "pending", "cancelled", "done"}}

FirstPending(u) ==
    \E i \in 1..Len(urls_list) :
        /\ urls_list[i] = u
        /\ task[u].pc = "pending"
        /\ \A j \in 1..(i - 1) : task[urls_list[j]].pc # "pending"

\* An exception raised in save_price_to_csv: to the except clause from the
\* try block, out of process_url from the except clause.
Raised(u) ==
    IF task[u].where = "try"
    THEN [task EXCEPT ![u].pc = "except"]
    ELSE [task EXCEPT ![u].pc = "finally", ![u].ret = "exception"]

\* The URLs of the main CSV's rows, as main collects them.
UrlsOf(rows) ==
    {Strip(rows[i]["URL"]) : i \in 1..Len(rows)} \ {<<>>}

\* main up to the submission of the URLs to the pool.
StartRun ==
    /\ mainPc \in {"idle", "done"}
    /\ \E links \in SUBSET URLs, csv \in BOOLEAN, workers \in 1..MaxWorkers :
          LET rows == IF csv THEN read_main_csv(snapshot) ELSE <<>>
              urls_to_process == links \cup UrlsOf(rows)
          IN  /\ urls_to_process # {}
              /\ attempts + Cardinality(urls_to_process) <= MaxAttempts
              /\ args' = [csv |-> csv, workers |-> workers]
              /\ csv_rows' = rows
              /\ \E order \in Orders(urls_to_process) : urls_list' = order
              /\ task' = [u \in URLs |->
                            IF u \in urls_to_process
                            THEN [IdleTask(u) EXCEPT !.pc = "pending"]
                            ELSE IdleTask(u)]
              /\ attempts' = attempts + Cardinality(urls_to_process)
    /\ mainPc' = "pool"
    /\ collected' = <<>>
    /\ all_results' = <<>>
    /\ applied' = 0
    /\ histAtStart' = history
    /\ sessions' = 0
    /\ UNCHANGED <<history, snapshot, before, all_time_lows, now, written, ex>>

\* The pool as it would be if it started a call for every URL at once.
StartTaskAtOnce(u) ==
    /\ FirstPending(u)
    /\ task' = [task EXCEPT ![u].pc = "setup"]
    /\ UNCHANGED <<history, snapshot, before, all_time_lows, now, applied,
                   all_results, csv_rows, args, urls_list, mainPc, collected,
                   written, histAtStart, attempts, sessions, ex>>

\* A worker thread takes the next URL from the queue.
StartTask(u) ==
    /\ FirstPending(u)
    /\ Cardinality(Running) < args.workers
    /\ task' = [task EXCEPT ![u].pc = "setup"]
    /\ UNCHANGED <<history, snapshot, before, all_time_lows, now, applied,
                   all_results, csv_rows, args, urls_list, mainPc, collected,
                   written, histAtStart, attempts, sessions, ex>>

\* setup_driver returns a driver, a browser session of its own, or raises.
SetupDriver(u) ==
    /\ task[u].pc = "setup"
    /\ \E ok \in BOOLEAN :
          IF ok
          THEN /\ task' = [task EXCEPT ![u].pc = "extract",
                                       ![u].driver = sessions + 1]
               /\ sessions' = sessions + 1
          ELSE /\ task' = [task EXCEPT ![u].pc = "except"]
               /\ sessions' = sessions
    /\ UNCHANGED <<history, snapshot, before, all_time_lows, now, applied,
                   all_results, csv_rows, args, urls_list, mainPc, collected,
                   written, histAtStart, attempts, ex>>

\* Lines 438 to 449: the extraction, the update of scraped_data and the
\* replacement of a None price by "Error".
Extract(u) ==
    /\ task[u].pc = "extract"
    /\ \E page \in Pages :
          LET d == extract_event_details(page)
          IN  task' = [task EXCEPT
                          ![u].pc = "exists",
                          ![u].page = page,
                          ![u].data =
                              ScrapedData(u, d.title, d.date, d.location,
                                  IF d.price = None THEN Error ELSE d.price)]
    /\ UNCHANGED <<history, snapshot, before, all_time_lows, now, applied,
                   all_results, csv_rows, args, urls_list, mainPc, collected,
                   written, histAtStart, attempts, sessions, ex>>

\* save_price_to_csv, line 268: the test whether the file exists.
SaveExists(u) ==
    /\ task[u].pc = "exists"
    /\ task' = [task EXCEPT
                   ![u].pc = IF history.exists THEN "append" ELSE "openw"]
    /\ UNCHANGED <<history, snapshot, before, all_time_lows, now, applied,
                   all_results, csv_rows, args, urls_list, mainPc, collected,
                   written, histAtStart, attempts, sessions, ex>>

\* Line 269: open(..., 'w') creates the file or empties it, or raises.
SaveOpenW(u) ==
    /\ task[u].pc = "openw"
    /\ \E ok \in BOOLEAN :
          IF ok
          THEN /\ history' = [exists |-> TRUE, lines |-> <<>>]
               /\ task' = [task EXCEPT ![u].pc = "header"]
          ELSE /\ history' = history
               /\ task' = Raised(u)
    /\ UNCHANGED <<snapshot, before, all_time_lows, now, applied,
                   all_results, csv_rows, args, urls_list, mainPc, collected,
                   written, histAtStart, attempts, sessions, ex>>

\* Lines 270 to 271: the header reaches the file when the handle is closed.
SaveHeader(u) ==
    /\ task[u].pc = "header"
    /\ history' = [history EXCEPT !.lines = WriteHeaderAtStart(@)]
    /\ task' = [task EXCEPT ![u].pc = "append"]
    /\ UNCHANGED <<snapshot, before, all_time_lows, now, applied,
                   all_results, csv_rows, args, urls_list, mainPc, collected,
                   written, histAtStart, attempts, sessions, ex>>

\* Lines 274 to 283: open(..., 'a') and the write of the row at the end of
\* the file, or an exception.  After the save at line 452 process_url
\* returns scraped_data, and so it does after the save at line 470.
SaveAppend(u) ==
    /\ task[u].pc = "append"
    /\ \E ok \in BOOLEAN :
          IF ok
          THEN /\ history' = [exists |-> TRUE,
                              lines |-> Append(history.lines, SavedRow(u))]
               /\ written' = Append(written, SavedRow(u))
               /\ task' = [task EXCEPT ![u].pc = "finally",
                                       ![u].ret = "result"]
          ELSE /\ history' = history
               /\ written' = written
               /\ task' = Raised(u)
    /\ UNCHANGED <<snapshot, before, all_time_lows, now, applied,
                   all_results, csv_rows, args, urls_list, mainPc, collected,
                   histAtStart, attempts, sessions, ex>>

\* Lines 464 to 471: the except clause saves a row of "Error" when
\* scraped_data still has its default title, and returns scraped_data.
Except(u) ==
    /\ task[u].pc = "except"
    /\ task' = IF task[u].data["Event Title"] = "Error"
               THEN [task EXCEPT ![u].pc = "exists", ![u].where = "except"]
               ELSE [task EXCEPT ![u].pc = "finally", ![u].ret = "result"]
    /\ UNCHANGED <<history, snapshot, before, all_time_lows, now, applied,
                   all_results, csv_rows, args, urls_list, mainPc, collected,
                   written, histAtStart, attempts, sessions, ex>>

\* The end of the call as it would be without the finally clause.
FinallyKeepsDriver(u) ==
    /\ task[u].pc = "finally"
    /\ task' = [task EXCEPT ![u].pc = "done"]
    /\ UNCHANGED <<history, snapshot, before, all_time_lows, now, applied,
                   all_results, csv_rows, args, urls_list, mainPc, collected,
                   written, histAtStart, attempts, sessions, ex>>

\* Lines 472 to 478: the finally clause quits the driver; the call ends.
Finally(u) ==
    /\ task[u].pc = "finally"
    /\ task' = [task EXCEPT ![u].pc = "done", ![u].driver = 0]
    /\ UNCHANGED <<history, snapshot, before, all_time_lows, now, applied,
                   all_results, csv_rows, args, urls_list, mainPc, collected,
                   written, histAtStart, attempts, sessions, ex>>

\* Line 585: list(results_iterator) takes the next result, in the order of
\* submission.  A call that raised ends the iteration: the iterator cancels
\* the calls not yet started, and all_results keeps its empty list.
Collect ==
    /\ mainPc = "pool"
    /\ LET u == urls_list[Len(collected) + 1]
       IN  /\ task[u].pc = "done"
           /\ IF task[u].ret = "result"
              THEN /\ collected' = Append(collected, task[u].data)
                   /\ IF Len(collected') = Len(urls_list)
                      THEN all_results' = collected' /\ mainPc' = "merge"
                      ELSE all_results' = all_results /\ mainPc' = "pool"
                   /\ task' = task
              ELSE /\ collected' = collected
                   /\ all_results' = all_results
                   /\ mainPc' = "shutdown"
                   /\ task' = [v \in URLs |->
                                 IF task[v].pc = "pending"
                                 THEN [task[v] EXCEPT !.pc = "cancelled"]
                                 ELSE task[v]]
    /\ UNCHANGED <<history, snapshot, before, all_time_lows, now, applied,
                   csv_rows, args, urls_list, written, histAtStart, attempts, sessions, ex>>

\* The end of the with block as it would be with shutdown(wait=False).
ShutdownNoWait ==
    /\ mainPc = "shutdown"
    /\ mainPc' = "merge"
    /\ UNCHANGED <<history, snapshot, before, all_time_lows, now, applied,
                   all_results, csv_rows, args, urls_list, collected, task,
                   written, histAtStart, attempts, sessions, ex>>

\* Lines 582 to 587: leaving the with block waits for the running calls.
Shutdown ==
    /\ mainPc = "shutdown"
    /\ Running = {}
    /\ mainPc' = "merge"
    /\ UNCHANGED <<history, snapshot, before, all_time_lows, now, applied,
                   all_results, csv_rows, args, urls_list, collected, task,
                   written, histAtStart, attempts, sessions, ex>>

\* main as it would be if it called update_csv with or without results.
MergeAlways ==
    /\ mainPc = "merge"
    /\ mainPc' = "done"
    /\ IF args.csv
       THEN /\ \E new_order \in Orders(NewUrls(
                    IF snapshot.exists THEN csv_rows ELSE <<>>, all_results)) :
                  snapshot' = update_csv(snapshot, all_results, csv_rows,
                                         history, new_order, now)
            /\ before' = snapshot
            /\ all_time_lows' = get_all_time_lows(history)
            /\ applied' = 1
       ELSE UNCHANGED <<snapshot, before, all_time_lows, applied>>
    /\ UNCHANGED <<history, now, all_results, csv_rows, args, urls_list,
                   collected, task, written, histAtStart, attempts, sessions, ex>>

\* Lines 589 to 600: update_csv, when --csv is given and there are results.
Merge ==
    /\ mainPc = "merge"
    /\ mainPc' = "done"
    /\ IF args.csv /\ all_results # <<>>
       THEN /\ \E new_order \in Orders(NewUrls(
                    IF snapshot.exists THEN csv_rows ELSE <<>>, all_results)) :
                  snapshot' = update_csv(snapshot, all_results, csv_rows,
                                         history, new_order, now)
            /\ before' = snapshot
            /\ all_time_lows' = get_all_time_lows(history)
            /\ applied' = 1
       ELSE UNCHANGED <<snapshot, before, all_time_lows, applied>>
    /\ UNCHANGED <<history, now, all_results, csv_rows, args, urls_list,
                   collected, task, written, histAtStart, attempts, sessions, ex>>

\* A first run, with neither file, or a later one: a history of one price
\* of u1 and a main CSV with u1's row.
Init ==
    /\ \/ /\ history = NoHistory
          /\ snapshot = NoSnapshot
          /\ written = <<>>
       \/ /\ history = [exists |-> TRUE,
                        lines |-> <<HeaderLine,
                                    HistoryRow(0, "T", "D", "L",
                                               FormatMoney(5000), u1)>>]
          /\ snapshot = [exists |-> TRUE, cols |-> StdCols,
                         rows |-> <<SnapshotRow(StdCols, u1, FormatMoney(5000),
                                                FormatMoney(5000))>>]
          /\ written = <<HistoryRow(0, "T", "D", "L", FormatMoney(5000), u1)>>
    /\ before = snapshot
    /\ all_time_lows = EmptyMap
    /\ now = 0
    /\ applied = 0
    /\ all_results = <<>>
    /\ csv_rows = <<>>
    /\ args = [csv |-> FALSE, workers |-> 1]
    /\ urls_list = <<>>
    /\ mainPc = "idle"
    /\ collected = <<>>
    /\ task = [u \in URLs |-> IdleTask(u)]
    /\ histAtStart = history
    /\ attempts = 0
    /\ sessions = 0
    /\ ex = NoExtraction

Next ==
    \/ Tick
    \/ StartRun
    \/ \E u \in URLs :
          \/ StartTask(u)
          \/ SetupDriver(u)
          \/ Extract(u)
          \/ SaveExists(u)
          \/ SaveOpenW(u)
          \/ SaveHeader(u)
          \/ SaveAppend(u)
          \/ Except(u)
          \/ Finally(u)
    \/ Collect
    \/ Shutdown
    \/ Merge

Spec == Init /\ [][Next]_vars

\* One execution of main: the files as Init gives them, one run, the clock.
StartOnce == mainPc = "idle" /\ StartRun

NextOneRun ==
    \/ Tick
    \/ StartOnce
    \/ \E u \in URLs :
          \/ StartTask(u)
          \/ SetupDriver(u)
          \/ Extract(u)
          \/ SaveExists(u)
          \/ SaveOpenW(u)
          \/ SaveHeader(u)
          \/ SaveAppend(u)
          \/ Except(u)
          \/ Finally(u)
    \/ Collect
    \/ Shutdown
    \/ Merge

SpecOneRun == Init /\ [][NextOneRun]_vars

-----------------------------------------------------------------------------
(* One execution of main with the extraction of each call followed stage by *)
(* stage and poll by poll, and the threads scheduled fairly.               *)

\* The polls a wait makes before it raises TimeoutException.
MaxPolls == 2

\* The call is in a WebDriverWait(...).until(...) whose condition the page
\* never meets.
StillWaiting(e) ==
    CASE e.pc = "ready" -> e.page.ready = "timeout"
      [] e.pc = "key" -> e.page.key = "timeout"
      [] e.pc = "title" -> e.page.title = "timeout"
      [] e.pc = "date" -> e.page.date = "timeout"
      [] e.pc = "location" -> e.page.location = "timeout"
      [] e.pc = "modal" -> e.page.modal = "timeout"
      [] e.pc = "price" ->
            e.page.price = "poll" /\ ~price_pattern_search(e.page.text).ok
      [] OTHER -> FALSE

\* The pages of the run: the page that shows $45.50, whose modal wait times
\* out; the page whose ready-state wait and price wait time out; the page
\* whose wait for the listings times out.
LivePages ==
    {page \in Pages :
        \/ page.text = FormatMoney(4550) /\ page.ready = "ok"
        \/ page.ready = "timeout"
        \/ page.key = "timeout"}

\* The states of the calls on these pages.
RECURSIVE CallsFrom(_)
CallsFrom(e) ==
    IF e.pc = "return" THEN {e} ELSE {e} \cup CallsFrom(StageStep(e))

Calls == UNION {CallsFrom(StartExtraction(page)) : page \in LivePages}

\* StageStep and StillWaiting over these states, computed once.
StageOf == [e \in Calls |-> IF e.pc = "return" THEN e ELSE StageStep(e)]
WaitingCalls == {e \in Calls : StillWaiting(e)}

\* Line 438: process_url calls extract_event_details on the page the URL
\* gives.
BeginExtract(u) ==
    /\ task[u].pc = "extract"
    /\ \E page \in LivePages :
          task' = [task EXCEPT ![u].pc = "stages",
                               ![u].page = page,
                               ![u].call = StartExtraction(page),
                               ![u].waited = 0]
    /\ UNCHANGED <<history, snapshot, before, all_time_lows, now, applied,
                   all_results, csv_rows, args, urls_list, mainPc, collected,
                   written, histAtStart, attempts, sessions, ex>>

\* A wait as it would be with a clock that starts again at every poll.
PollNoTimeout(u) ==
    /\ task[u].pc = "stages"
    /\ task[u].call \in WaitingCalls
    /\ task' = [task EXCEPT ![u].waited = (@ + 1) % MaxPolls]
    /\ UNCHANGED <<history, snapshot, before, all_time_lows, now, applied,
                   all_results, csv_rows, args, urls_list, mainPc, collected,
                   written, histAtStart, attempts, sessions, ex>>

\* One poll of a wait that finds nothing: the wait sleeps and polls again
\* until its time is over.
Poll(u) ==
    /\ task[u].pc = "stages"
    /\ task[u].call \in WaitingCalls
    /\ task[u].waited < MaxPolls
    /\ task' = [task EXCEPT ![u].waited = @ + 1]
    /\ UNCHANGED <<history, snapshot, before, all_time_lows, now, applied,
                   all_results, csv_rows, args, urls_list, mainPc, collected,
                   written, histAtStart, attempts, sessions, ex>>

\* The end of a stage: the navigation or the fallback read is done, or the
\* wait has found what it waits for, has raised, or has timed out.
Stage(u) ==
    /\ task[u].pc = "stages"
    /\ task[u].call.pc # "return"
    /\ task[u].call \in WaitingCalls => task[u].waited = MaxPolls
    /\ task' = [task EXCEPT ![u].call = StageOf[@], ![u].waited = 0]
    /\ UNCHANGED <<history, snapshot, before, all_time_lows, now, applied,
                   all_results, csv_rows, args, urls_list, mainPc, collected,
                   written, histAtStart, attempts, sessions, ex>>

\* Lines 438 to 449: extract_event_details has returned; the update of
\* scraped_data and the replacement of a None price by "Error".
EndExtract(u) ==
    /\ task[u].pc = "stages"
    /\ task[u].call.pc = "return"
    /\ LET d == task[u].call
       IN  task' = [task EXCEPT
                       ![u].pc = "exists",
                       ![u].data =
                           ScrapedData(u, d.title, d.date, d.location,
                               IF d.price = None THEN Error ELSE d.price)]
    /\ UNCHANGED <<history, snapshot, before, all_time_lows, now, applied,
                   all_results, csv_rows, args, urls_list, mainPc, collected,
                   written, histAtStart, attempts, sessions, ex>>

\* The steps of the thread that executes process_url(u).
ThreadStep(u) ==
    \/ StartTask(u)
    \/ SetupDriver(u)
    \/ BeginExtract(u)
    \/ Poll(u)
    \/ Stage(u)
    \/ EndExtract(u)
    \/ SaveExists(u)
    \/ SaveOpenW(u)
    \/ SaveHeader(u)
    \/ SaveAppend(u)
    \/ Except(u)
    \/ Finally(u)

NextLive ==
    \/ StartOnce
    \/ \E u \in URLs : ThreadStep(u)
    \/ Collect
    \/ Shutdown
    \/ Merge

\* The main thread at line 589 goes on to the end of main.  Merge is enabled
\* whenever mainPc is "merge" and every Merge step sets mainPc to "done", so
\* weak fairness of this step, which leaves the files alone, allows the same
\* behaviours as weak fairness of Merge: those in which main does not stay
\* at line 589 for ever.  It spares TLC the evaluation of update_csv in
\* ENABLED.
MergeDue ==
    /\ mainPc = "merge"
    /\ mainPc' = "done"
    /\ UNCHANGED <<history, snapshot, before, all_time_lows, now, applied,
                   all_results, csv_rows, args, urls_list, collected, task,
                   written, histAtStart, attempts, sessions, ex>>

\* No thread that can take a step is left without one for ever.
FairThreads ==
    /\ \A u \in URLs : WF_vars(ThreadStep(u))
    /\ WF_vars(Collect)
    /\ WF_vars(Shutdown)
    /\ WF_vars(MergeDue)

\* A first run, with neither file: every call that saves goes through the
\* creation of the history.
InitLive == Init /\ history = NoHistory

SpecLive == InitLive /\ [][NextLive]_vars /\ FairThreads

-----------------------------------------------------------------------------
(* Properties of get_all_time_lows (under SpecLows) *)

\* A Money record: its Price is an amount as the program writes it.
IsMoney(price) == \E c \in Amounts : FormatMoney(c) = price
AmountOf(price) == CHOOSE c \in Amounts : FormatMoney(c) = price

DataRows(file) == Tail(file.lines)

MoneyAmounts(rows, u) ==
    {AmountOf(rows[i].Price) :
        i \in {j \in 1..Len(rows) : rows[j].URL = u /\ IsMoney(rows[j].Price)}}

\* The file with its records i and j exchanged.
Exchanged(file, i, j) ==
    [file EXCEPT !.lines =
        <<HeaderLine>> \o [k \in 1..Len(DataRows(file)) |->
                              IF k = i THEN DataRows(file)[j]
                              ELSE IF k = j THEN DataRows(file)[i]
                              ELSE DataRows(file)[k]]]

\* C6: the map get_all_time_lows returns has exactly the URLs with at least
\* one Money record as keys, each with the least Money amount recorded for
\* it, and is the same when any two records are exchanged (and so, the
\* histories being all the sequences of the records, for every order).
C6_LowsAreMinimumOfMoney ==
    applied = 1 =>
        LET rows == DataRows(history)
        IN  /\ DOMAIN all_time_lows =
                   {u \in URLs : MoneyAmounts(rows, u) # {}}
            /\ \A u \in DOMAIN all_time_lows :
                   /\ all_time_lows[u] \in MoneyAmounts(rows, u)
                   /\ \A a \in MoneyAmounts(rows, u) : all_time_lows[u] <= a
            /\ \A i, j \in 1..Len(rows) :
                   get_all_time_lows(Exchanged(history, i, j)) = all_time_lows

\* A history where u1 has a higher amount before a lower one and a record
\* that is no amount, and u2 has no Money record at all.
C6_Witness ==
    /\ applied = 1
    /\ LET rows == DataRows(history)
       IN  /\ Len(rows) = 3
           /\ rows[1].URL = u1 /\ rows[1].Price = FormatMoney(123456)
           /\ rows[2].URL = u1 /\ rows[2].Price = FormatMoney(4550)
           /\ rows[3].URL = u2 /\ rows[3].Price = SoldOut
    /\ DOMAIN all_time_lows = {u1}
    /\ all_time_lows[u1] = 4550

-----------------------------------------------------------------------------
(* Properties of update_csv (under SpecMerge) *)

Cell(file, i, c) == Get(file.rows[i], c, EmptyCell(c))

RowUrl(file, i) == Strip(Cell(file, i, "URL"))

InBatch(url) == FirstMatch(all_results, url) # 0

WithoutTime(file) ==
    [exists |-> file.exists,
     cols |-> file.cols \ {"Time"},
     rows |-> [i \in 1..Len(file.rows) |->
                  [c \in file.cols \ {"Time"} |-> file.rows[i][c]]]]

\* C7 as claimed: a second application of update_csv, to the file the first
\* one wrote, with the same batch and history, leaves every column of every
\* row as it is.
C7_MergeTwiceSameFile ==
    applied = 2 => snapshot = before

\* C7 as amended: a second application leaves every column of every row as
\* it is, except Time.
C7_MergeTwiceSameButTime ==
    applied = 2 => WithoutTime(snapshot) = WithoutTime(before)

\* A second application, a second after the first, that rewrote the Time of
\* a row and left a row whose URL is not in the batch as it was.
C7_Witness ==
    /\ applied = 2
    /\ \E i, j \in 1..Len(before.rows) :
          /\ Cell(before, i, "Time") = 0
          /\ Cell(snapshot, i, "Time") = 1
          /\ RowUrl(before, j) # <<>>
          /\ ~InBatch(RowUrl(before, j))

\* C8 as claimed: after a merge every row has the map's value for its URL as
\* All Time Low Price, or "N/A" when the map has none.
C8_EveryRowHasMapLow ==
    applied >= 1 =>
        \A i \in 1..Len(snapshot.rows) :
            Cell(snapshot, i, "All Time Low Price") =
                IF RowUrl(snapshot, i) \in DOMAIN all_time_lows
                THEN FormatMoney(all_time_lows[RowUrl(snapshot, i)])
                ELSE NA

\* The rows the merge found in the main CSV are the first rows it writes.
IsExisting(i) == i <= Len(read_main_csv(before))

\* C8 as amended: after a merge a row with a URL has the map's value for its
\* URL as All Time Low Price when the map has one; when the map has none, a
\* new row and a row that had no such column have "N/A" and a row that had a
\* value keeps it.  A row without URL keeps what it had.
C8_RowHasMapLowOrKeepsOld ==
    applied >= 1 =>
        \A i \in 1..Len(snapshot.rows) :
            Cell(snapshot, i, "All Time Low Price") =
                IF IsExisting(i) /\ RowUrl(snapshot, i) = <<>>
                THEN Cell(before, i, "All Time Low Price")
                ELSE IF RowUrl(snapshot, i) \in DOMAIN all_time_lows
                THEN FormatMoney(all_time_lows[RowUrl(snapshot, i)])
                ELSE IF IsExisting(i) /\ "All Time Low Price" \in before.cols
                THEN Cell(before, i, "All Time Low Price")
                ELSE NA

\* A merge that replaced the low of one existing row by the map's value and
\* kept the low of another, whose URL the map does not have.
C8_Witness ==
    /\ applied = 1
    /\ \E i, j \in 1..Len(before.rows) :
          /\ RowUrl(before, i) \in DOMAIN all_time_lows
          /\ Cell(before, i, "All Time Low Price") = FormatMoney(4550)
          /\ Cell(snapshot, i, "All Time Low Price") = FormatMoney(123456)
          /\ RowUrl(before, j) # <<>>
          /\ RowUrl(before, j) \notin DOMAIN all_time_lows
          /\ Cell(snapshot, j, "All Time Low Price") = FormatMoney(4550)

\* C9: a row of the main CSV whose URL has no result in the batch keeps its
\* Time, Event Title, Date, Location and Price through update_csv.
C9_UnmatchedRowKeepsScrapedFields ==
    applied >= 1 =>
        \A i \in 1..Len(before.rows) :
            ~InBatch(RowUrl(before, i)) =>
                \A c \in {"Time", "Event Title", "Date", "Location", "Price"} :
                    Cell(snapshot, i, c) = Cell(before, i, c)

\* A merge, at a later clock reading than the rows', that updated one row
\* and left another, whose URL is not in the batch, with a new low only.
C9_Witness ==
    /\ applied = 1
    /\ \E i, j \in 1..Len(before.rows) :
          /\ InBatch(RowUrl(before, i))
          /\ Cell(snapshot, i, "Time") = 1
          /\ RowUrl(before, j) # <<>>
          /\ ~InBatch(RowUrl(before, j))
          /\ Cell(snapshot, j, "Time") = 0
          /\ Cell(snapshot, j, "All Time Low Price")
                 # Cell(before, j, "All Time Low Price")

\* C10: in every existing row, every column outside the standard ones is a
\* column of the written file and has the value it had.
C10_ExtraColumnsCarried ==
    applied >= 1 =>
        \A i \in 1..Len(before.rows) :
            \A c \in before.cols \ StdCols :
                /\ c \in snapshot.cols
                /\ snapshot.rows[i][c] = before.rows[i][c]

\* A merge of a main CSV with a Notes column that updated one of its rows
\* and left another, whose URL is not in the batch.
C10_Witness ==
    /\ applied = 1
    /\ "Notes" \in before.cols
    /\ \E i, j \in 1..Len(before.rows) :
          /\ InBatch(RowUrl(before, i))
          /\ RowUrl(before, j) # <<>> /\ ~InBatch(RowUrl(before, j))
          /\ Cell(snapshot, i, "Event Title") # Cell(before, i, "Event Title")
          /\ snapshot.rows[i]["Notes"] = "note"
          /\ snapshot.rows[j]["Notes"] = "note"

\* C22: after a merge, an existing row whose URL is in the batch has the
\* batch's Event Title, Date and Location, "N/A" included, and the batch's
\* Price when that is an amount, "Sold Out", or the "N/A" or "Error" an
\* unknown price is written as.
C22_MatchedRowTakesFreshValues ==
    applied >= 1 =>
        \A i \in 1..Len(read_main_csv(before)) :
            LET m == FirstMatch(all_results, RowUrl(before, i))
                data == all_results[m]
            IN  m # 0 =>
                    /\ Cell(snapshot, i, "Event Title") = data["Event Title"]
                    /\ Cell(snapshot, i, "Date") = data["Date"]
                    /\ Cell(snapshot, i, "Location") = data["Location"]
                    /\ (IsMoney(data["Price"]) \/ data["Price"] \in {SoldOut, NA, Error})
                       => Cell(snapshot, i, "Price") = data["Price"]

\* A row with a date and a price took a sold-out result without date, and
\* a row with details took a result without details or price.
C22_Witness ==
    /\ applied = 1
    /\ Len(read_main_csv(before)) = 2
    /\ RowUrl(before, 1) = u1 /\ RowUrl(before, 2) = u2
    /\ Cell(before, 1, "Date") = "OldD"
    /\ Cell(before, 1, "Price") = FormatMoney(5000)
    /\ Cell(before, 2, "Event Title") = "Old"
    /\ Cell(snapshot, 1, "Date") = "N/A"
    /\ Cell(snapshot, 1, "Price") = SoldOut
    /\ Cell(snapshot, 2, "Event Title") = "N/A"
    /\ Cell(snapshot, 2, "Price") = Error

\* The URLs of the batch that no row of the file read had.
FreshUrls ==
    {all_results[k]["URL"] : k \in 1..Len(all_results)}
    \ {RowUrl(before, i) : i \in 1..Len(read_main_csv(before))}

\* C23: after the first merge the file has every existing row, each at its
\* place and with its URL, followed by exactly one row for each URL of the
\* batch that no existing row had: its row count is the existing count plus
\* the number of those URLs.
C23_NoRowDroppedOrDuplicated ==
    applied = 1 =>
        LET n == Len(read_main_csv(before))
        IN  /\ Len(snapshot.rows) = n + Cardinality(FreshUrls)
            /\ \A i \in 1..n :
                  Cell(snapshot, i, "URL") = Cell(before, i, "URL")
            /\ \A u \in FreshUrls :
                  Cardinality({i \in (n + 1)..Len(snapshot.rows) :
                                  Cell(snapshot, i, "URL") = u}) = 1
            /\ \A i \in (n + 1)..Len(snapshot.rows) :
                  Cell(snapshot, i, "URL") \in FreshUrls

\* A file with a row without URL and a row of u1 took a batch of u1 and u2:
\* both rows are there, and one new row.
C23_Witness ==
    /\ applied = 1
    /\ Len(read_main_csv(before)) = 2
    /\ \E i, j \in 1..2 : RowUrl(before, i) = <<>> /\ RowUrl(before, j) = u1
    /\ Len(all_results) = 2
    /\ Len(snapshot.rows) = 3

-----------------------------------------------------------------------------
(* Properties of a run (under Spec) *)

PoolDone == mainPc \in {"merge", "done"}

Submitted == {urls_list[i] : i \in 1..Len(urls_list)}

\* The intact records of a history file, in the order of the file.
Records(file) == SelectSeq(file.lines, LAMBDA l : l.kind = "row")

RowCount(file, u) ==
    Cardinality({i \in 1..Len(file.lines) :
                    file.lines[i].kind = "row" /\ file.lines[i].URL = u})

IsPrefix(a, b) == Len(a) <= Len(b) /\ SubSeq(b, 1, Len(a)) = a

\* C1: after a run that merged, a row of the main CSV whose URL's attempt
\* ended with the Error outcome has the Price it had before, when that was
\* not "Error".
C1_ErrorKeepsOldPrice ==
    (mainPc = "done" /\ applied = 1) =>
        \A i \in 1..Len(read_main_csv(before)) :
            \A k \in 1..Len(all_results) :
                (/\ all_results[k]["URL"] = RowUrl(before, i)
                 /\ all_results[k]["Price"] = Error
                 /\ "Price" \in before.cols
                 /\ Cell(before, i, "Price") # Error)
                => Cell(snapshot, i, "Price") = Cell(before, i, "Price")

\* C2: when the calls of a run have ended, the history file is the header,
\* once and first, followed by every row whose append completed, intact.
C2_ConcurrentAppendsIntact ==
    PoolDone =>
        IF history.exists
        THEN history.lines = <<HeaderLine>> \o written
        ELSE written = <<>>

\* C3: the merge step receives exactly one result for each submitted URL.
C3_OneResultPerUrl ==
    mainPc = "merge" =>
        /\ Len(all_results) = Len(urls_list)
        /\ \A u \in Submitted :
              Cardinality({k \in 1..Len(all_results) :
                              all_results[k]["URL"] = u}) = 1

\* C4: when a run has completed, the history holds exactly one row more for
\* each submitted URL than when the run started.
C4_OneHistoryRowPerUrl ==
    mainPc = "done" =>
        \A u \in Submitted :
            RowCount(history, u) = RowCount(histAtStart, u) + 1

\* C5: the records of the history file after any step are an extension of
\* its records before the step.
C5_HistoryAppendOnly ==
    [][IsPrefix(Records(history), Records(history'))]_vars

\* The calls in flight in a state of the tasks.
InFlight(t) ==
    {u \in URLs : t[u].pc \notin {"none", "pending", "cancelled", "done"}}

\* The calls that hold an open session.
Holders == {u \in URLs : task[u].driver # 0}

\* C11: at most args.workers calls are in flight, at most args.workers
\* sessions are open, and no two calls hold the same session.
C11_AtMostNInFlight ==
    /\ Cardinality(InFlight(task)) <= args.workers
    /\ Cardinality(Holders) <= args.workers
    /\ \A u \in Holders, v \in Holders :
          u # v => task[u].driver # task[v].driver

\* Two URLs on one worker: one call holds a session, the other one has to
\* wait.
C11_Witness ==
    /\ args.workers = 1
    /\ Len(urls_list) = 2
    /\ \E u \in Holders : \E v \in URLs : task[v].pc = "pending"

\* C12: a call that has returned holds no open session, and none is open
\* when the pool has finished.
C12_SessionClosedOnReturn ==
    /\ \A u \in URLs \ InFlight(task) : task[u].driver = 0
    /\ PoolDone => Holders = {}

\* A call that opened a session and then failed to write its history row
\* (no row was added for the only URL of the run) has returned.
C12_Witness ==
    /\ PoolDone
    /\ Len(urls_list) = 1
    /\ sessions = 1
    /\ LET u == urls_list[1]
       IN  /\ task[u].pc = "done"
           /\ RowCount(history, u) = RowCount(histAtStart, u)

\* A call that has ended and failed: it raised, or its result is Error.
Failed(v) ==
    /\ task[v].pc = "done"
    /\ task[v].ret = "exception" \/ task[v].data["Price"] = Error

\* C13: when the pool has finished and a call has failed, the call of every
\* other submitted URL has been started and has run to its end.
C13_FailureDoesNotStopOthers ==
    PoolDone =>
        \A u \in Submitted, v \in Submitted :
            (u # v /\ Failed(v)) => task[u].pc = "done"

\* C14: the merge step is reached only when no call is in flight or waiting
\* to start, and from then on no step of the run changes the history file.
C14_MergeAfterPool ==
    [][/\ mainPc' \in {"merge", "done"} =>
              \A u \in URLs : task'[u].pc \in {"none", "cancelled", "done"}
       /\ (mainPc \in {"merge", "done"} /\ mainPc' \in {"merge", "done"}) =>
              history' = history]_vars

\* A run of two URLs that has merged, with a history row of each.
C14_Witness ==
    /\ mainPc = "done"
    /\ applied = 1
    /\ Len(urls_list) = 2
    /\ \A u \in URLs : task[u].pc = "done" /\ RowCount(history, u) > 0

\* A wait of the page's extraction ran until its timeout.
WaitedOutStages(page) ==
    LET e == RunStages(StartExtraction(page))
    IN  \/ \E st \in {"ready", "key", "title", "date", "location", "modal"} :
              st \in e.ran /\ page[st] = "timeout"
        \/ "fallback" \in e.ran

WaitedOutPages == {page \in Pages : WaitedOutStages(page)}
WaitedOut(page) == page \in WaitedOutPages

\* C16: once the pool has cancelled its calls, no call in flight ends an
\* extraction in which a wait ran until its timeout.
C16_CancelAbortsWaits ==
    [][mainPc = "shutdown" =>
          \A u \in URLs :
              (task[u].pc = "extract" /\ task'[u].pc # "extract")
              => ~WaitedOut(task'[u].page)]_vars

\* The price wait of the page timed out and the fallback read found no
\* sold-out text.
UnknownOutcome(page) ==
    /\ "fallback" \in RunStages(StartExtraction(page)).ran
    /\ ~(page.fallback = "read" /\ Contains(Lower(page.text), SoldOutNeedle))

\* The price wait of the page timed out and the fallback read found a
\* sold-out text.
SoldOutOutcome(page) ==
    /\ "fallback" \in RunStages(StartExtraction(page)).ran
    /\ page.fallback = "read"
    /\ Contains(Lower(page.text), SoldOutNeedle)

UnknownPages == {page \in Pages : UnknownOutcome(page)}
UnknownPage(page) == page \in UnknownPages

SoldOutPages == {page \in Pages : SoldOutOutcome(page)}
SoldOutPage(page) == page \in SoldOutPages

\* C18: a call whose page gave the Unknown price outcome has "N/A" as the
\* Price of its result, and appends "N/A" as the Price of its history row.
C18_UnknownRecordedAsNA ==
    \A u \in URLs :
        UnknownPage(task[u].page) =>
            /\ task[u].data["Price"] = NA
            /\ task[u].pc = "append" => SavedRow(u).Price = NA

\* C19: a call whose page gave the SoldOut price outcome has "Sold Out" as
\* the Price of its result, the row it appends to the history has the Price
\* "Sold Out", and after the merge of its run the rows of the main CSV with
\* its URL have the Price "Sold Out".
C19_SoldOutRecorded ==
    [][\A u \in URLs :
          SoldOutPage(task'[u].page) =>
              /\ task'[u].data["Price"] = SoldOut
              /\ (task[u].pc = "append" /\ task'[u].pc = "finally"
                  /\ written' # written) =>
                     written'[Len(written')].Price = SoldOut
              /\ (mainPc = "merge" /\ applied' = 1) =>
                     \A i \in 1..Len(snapshot'.rows) :
                         RowUrl(snapshot', i) = u =>
                             Cell(snapshot', i, "Price") = SoldOut]_vars

\* A merged run whose sold-out call appended its row and whose URL has a
\* row in the main CSV.
C19_Witness ==
    /\ mainPc = "done"
    /\ applied = 1
    /\ \E u \in URLs :
          /\ SoldOutPage(task[u].page)
          /\ \E k \in 1..Len(written) :
                written[k].URL = u /\ written[k].Price = SoldOut
          /\ \E i \in 1..Len(snapshot.rows) :
                RowUrl(snapshot, i) = u /\ Cell(snapshot, i, "Price") = SoldOut

\* C25: after a run with --csv that merged, every row of the main CSV whose
\* URL has a result with an amount in that run has an amount as its all-time
\* low, not above the result's.
C25_LowNotAboveFreshPrice ==
    (mainPc = "done" /\ args.csv /\ applied = 1) =>
        \A k \in 1..Len(all_results) :
            IsMoney(all_results[k]["Price"]) =>
                \A i \in 1..Len(snapshot.rows) :
                    RowUrl(snapshot, i) = all_results[k]["URL"] =>
                        /\ IsMoney(Cell(snapshot, i, "All Time Low Price"))
                        /\ AmountOf(Cell(snapshot, i, "All Time Low Price"))
                             <= AmountOf(all_results[k]["Price"])

\* C26: in a sequence of runs on the same two files, a merge leaves no row
\* of the main CSV with a higher all-time low than the amount the row had
\* before the merge, and leaves an amount where there was one.
C26_LowNeverIncreases ==
    applied = 1 =>
        \A i \in 1..Len(read_main_csv(before)) :
            IsMoney(Cell(before, i, "All Time Low Price")) =>
                /\ RowUrl(snapshot, i) = RowUrl(before, i)
                /\ IsMoney(Cell(snapshot, i, "All Time Low Price"))
                /\ AmountOf(Cell(snapshot, i, "All Time Low Price"))
                     <= AmountOf(Cell(before, i, "All Time Low Price"))

\* The second merge of a sequence: the first run found $45.50 where the low
\* was $50.00 and its merge lowered the low, the second run found $50.00 and
\* its merge left the low at $45.50.
C26_Witness ==
    /\ mainPc = "done"
    /\ applied = 1
    /\ attempts = 2
    /\ Len(all_results) = 1
    /\ all_results[1]["URL"] = u1
    /\ all_results[1]["Price"] = FormatMoney(5000)
    /\ \E k \in 1..Len(history.lines) :
          /\ history.lines[k].kind = "row"
          /\ history.lines[k].URL = u1
          /\ history.lines[k].Price = FormatMoney(4550)
    /\ \E i \in 1..Len(before.rows) :
          /\ RowUrl(before, i) = u1
          /\ Cell(before, i, "All Time Low Price") = FormatMoney(4550)
          /\ Cell(snapshot, i, "All Time Low Price") = FormatMoney(4550)
          /\ Cell(snapshot, i, "Price") = FormatMoney(5000)

\* C27: when the collection of the results failed, so that main has no
\* results, update_csv is not called and the main CSV is as it was before
\* the run, whatever the run appended to the history.
C27_NoResultsNoMerge ==
    (mainPc \in {"shutdown", "merge", "done"} /\ all_results = <<>>) =>
        /\ applied = 0
        /\ snapshot = before

\* A run with --csv is over: a call raised, the history has a row more than
\* at the start, and the main CSV is the one the run found.
C27_Witness ==
    /\ mainPc = "done"
    /\ args.csv
    /\ all_results = <<>>
    /\ \E u \in URLs : task[u].ret = "exception"
    /\ history.exists
    /\ Len(history.lines)
         > (IF histAtStart.exists THEN Len(histAtStart.lines) ELSE 0)
    /\ snapshot.exists
    /\ snapshot = before

-----------------------------------------------------------------------------
(* Properties of extract_event_details (under SpecExtract) *)

Returned == ex.pc = "return"

\* C15: when the text of the price container shows an amount after a "$",
\* with or without commas, with or without cents, the call returns the
\* amount in full, as "$", comma-grouped digits and two decimals.
C15_FullFirstAmountStored ==
    Returned =>
        \A pre \in Before, gap \in Gaps, a \in ShownAmounts,
           style \in Styles, post \in After :
            (/\ ex.page.text = AmountText(pre, gap, a, style, post)
             /\ "price" \in ex.ran
             /\ ex.page.price = "poll")
            => ex.price = FormatMoney(a)

LaterStages == {"title", "date", "location", "modal", "price", "fallback"}

\* C17: when the wait for the listings container timed out, no later stage
\* has run, and the call returns "N/A" three times and no price.
C17_KeyTimeoutAbortsAll ==
    ("key" \in ex.ran /\ ex.page.key = "timeout") =>
        /\ ex.ran \cap LaterStages = {}
        /\ Returned
        /\ ex.title = "N/A" /\ ex.date = "N/A" /\ ex.location = "N/A"
        /\ ex.price = None

C17_Witness ==
    /\ Returned
    /\ ex.ran = {"nav", "ready", "key"}
    /\ ex.page.key = "timeout"
    /\ ex.page.title = "ok"

\* C20: when the wait for the listings container succeeded, the call returns
\* only after the price stage has run, and each of title, date and location
\* is "N/A" exactly when its own stage failed.
C20_StagesIndependent ==
    (Returned /\ "key" \in ex.ran /\ ex.page.key = "ok") =>
        /\ "price" \in ex.ran
        /\ ex.title = "N/A" <=> ex.page.title # "ok"
        /\ ex.date = "N/A" <=> ex.page.date # "ok"
        /\ ex.location = "N/A" <=> ex.page.location # "ok"

\* The ready-state wait timed out, the title and the modal broke, the
\* location timed out: the date and the price are there.
C20_Witness ==
    /\ Returned
    /\ ex.page.ready = "timeout"
    /\ ex.page.title = "fault"
    /\ ex.page.date = "ok"
    /\ ex.page.location = "timeout"
    /\ ex.page.modal = "fault"
    /\ ex.title = "N/A" /\ ex.date = "D" /\ ex.location = "N/A"
    /\ ex.price = FormatMoney(5000)

-----------------------------------------------------------------------------
(* Properties of a run whose extraction fails (under SpecOneRun) *)

\* The pages on which the navigation, the ready-state wait or the wait for
\* the listings container ends with an exception that is no timeout.
FaultPages ==
    {page \in Pages :
        \/ page.nav = "fault"
        \/ page.nav = "ok" /\ page.ready = "fault"
        \/ page.nav = "ok" /\ page.ready \in {"ok", "timeout"}
           /\ page.key = "fault"}

\* The stages a call runs on each of these pages.
FaultRuns == {RunStages(StartExtraction(page)) : page \in FaultPages}

\* C21: a call on a page whose navigation, ready-state wait or listings
\* wait fails with a fault has "N/A" as title, date and location and "Error"
\* as price in its result, the row it appends to the history has the Price
\* "Error", and none of the later stages has run.
C21_FaultMakesError ==
    [][\A u \in URLs :
          task'[u].page \in FaultPages =>
              /\ task'[u].data = ScrapedData(u, "N/A", "N/A", "N/A", Error)
              /\ (task[u].pc = "append" /\ task'[u].pc = "finally"
                  /\ written' # written) =>
                     /\ written'[Len(written')].Price = Error
                     /\ written'[Len(written')].URL = u
              /\ \A e \in FaultRuns : e.ran \cap LaterStages = {}]_vars

\* A finished run with the row of a call in the history: the call failed in
\* the ready-state wait of a page that shows a price.
C21_Witness ==
    /\ mainPc = "done"
    /\ \E u \in URLs :
          /\ task[u].page \in FaultPages
          /\ task[u].page.ready = "fault"
          /\ task[u].page.text = FormatMoney(4550)
          /\ task[u].pc = "done"
          /\ \E k \in 1..Len(written) :
                /\ written[k].URL = u
                /\ written[k].Price = Error
                /\ written[k].Title = "N/A"

-----------------------------------------------------------------------------
(* Termination (under SpecLive) *)

\* C24: every extraction that has begun returns, and a run whose URLs are
\* submitted reaches the end of main, where the pool has no call running
\* or waiting and the merge is done or skipped.
C24_RunTerminates ==
    /\ \A u \in URLs :
          (task[u].pc = "stages") ~> (task[u].call.pc = "return")
    /\ (mainPc = "pool") ~>
          (/\ mainPc = "done"
           /\ \A u \in URLs : task[u].pc \in {"none", "done", "cancelled"})

\* The end of a run with a call whose ready-state wait and price wait timed
\* out and whose fallback read has run.
C24_Witness ==
    /\ mainPc = "done"
    /\ \E u \in URLs :
          /\ task[u].pc = "done"
          /\ task[u].call.pc = "return"
          /\ task[u].page.ready = "timeout"
          /\ {"ready", "price", "fallback"} \subseteq task[u].call.ran

====
